---- MODULE Spec2Model ----
(***************************************************************************)
(* A model of picoblog's content resolution pipeline (src/src/lib.rs).     *)
(*                                                                         *)
(* Strings are sequences of characters; a character is a one-code-point    *)
(* string ("a", "#", ...) or the name of a non-ASCII code point            *)
(* ("U+4F60").  The pattern matchers (RE_BODY_TAGS, RE_FILENAME_DATE,      *)
(* RE_HTML_RESOURCES, RE_FIRST_URL) are modelled by scanners over these    *)
(* sequences that return what the regex crate returns: leftmost,           *)
(* non-overlapping matches.                                                *)
(***************************************************************************)
EXTENDS Integers, Sequences, FiniteSets, TLC

VARIABLES input, output, files, cursor, articles, status

vars == <<input, output, files, cursor, articles, status>>

(***************************************************************************)
(* Bounds of the model.                                                    *)
(***************************************************************************)
MaxContent == 4

MaxTemplate == 3

MaxAttributes == 2

MaxFiles == 3

(***************************************************************************)
(* Characters.                                                             *)
(***************************************************************************)
Digits == {"0", "1", "2", "3", "4", "5", "6", "7", "8", "9"}

AsciiLower ==
  {"a", "b", "c", "d", "e", "f", "g", "h", "i", "j", "k", "l", "m",
   "n", "o", "p", "q", "r", "s", "t", "u", "v", "w", "x", "y", "z"}

AsciiUpper ==
  {"A", "B", "C", "D", "E", "F", "G", "H", "I", "J", "K", "L", "M",
   "N", "O", "P", "Q", "R", "S", "T", "U", "V", "W", "X", "Y", "Z"}

\* A letter outside ASCII (the doc comment's example #你好 starts with it).
NonAsciiLetters == {"U+4F60"}

\* \p{L}
IsLetter(c) == c \in AsciiLower \cup AsciiUpper \cup NonAsciiLetters

\* \p{N}
IsNumber(c) == c \in Digits

\* [[:alnum:]] (ASCII only)
IsAsciiAlnum(c) == c \in AsciiLower \cup AsciiUpper \cup Digits

\* \d, restricted to the ASCII digits
IsDigit(c) == c \in Digits

DigitValue(c) ==
  CASE c = "0" -> 0 [] c = "1" -> 1 [] c = "2" -> 2 [] c = "3" -> 3
    [] c = "4" -> 4 [] c = "5" -> 5 [] c = "6" -> 6 [] c = "7" -> 7
    [] c = "8" -> 8 [] c = "9" -> 9

None == [some |-> FALSE]

Some(v) == [some |-> TRUE, value |-> v]

\* Option::or
OrOption(a, b) == IF a.some THEN a ELSE b

\* All sequences over S of length at most n.
SeqsUpTo(S, n) == UNION {[1..k -> S] : k \in 0..n}

\* s with its first n elements dropped.
Drop(s, n) == SubSeq(s, n + 1, Len(s))

\* str::starts_with
StartsWith(s, p) == Len(s) >= Len(p) /\ SubSeq(s, 1, Len(p)) = p

RECURSIVE Flatten(_)
Flatten(ss) == IF ss = <<>> THEN <<>> ELSE Head(ss) \o Flatten(Tail(ss))

(***************************************************************************)
(* extract_body_tags and RE_BODY_TAGS: '#', a letter, then any number of   *)
(* letters, digits and hyphens.                                            *)
(***************************************************************************)
\* A variant of the pattern's first class that also admits digits and
\* hyphens, i.e. the pattern #([\p{L}\p{N}-]+).
TagStartAnyTagChar(c) == IsLetter(c) \/ IsNumber(c) \/ c = "-"

\* The class of the first character after the '#'.
TagStart(c) == IsLetter(c)

\* The class of the following characters.
TagRest(c) == IsLetter(c) \/ IsNumber(c) \/ c = "-"

\* The end of the greedy run of letters, digits, hyphens after position i.
RECURSIVE TagEnd(_, _)
TagEnd(content, i) ==
  IF i + 1 <= Len(content) /\ TagRest(content[i + 1])
  THEN TagEnd(content, i + 1)
  ELSE i

\* captures_iter from position i on: the leftmost match, then the rest.
RECURSIVE BodyTagsFrom(_, _)
BodyTagsFrom(content, i) ==
  IF i > Len(content) THEN <<>>
  ELSE IF content[i] = "#" /\ i + 1 <= Len(content) /\ TagStart(content[i + 1])
       THEN LET j == TagEnd(content, i + 1)
            IN  <<SubSeq(content, i + 1, j)>> \o BodyTagsFrom(content, j + 1)
       ELSE BodyTagsFrom(content, i + 1)

extract_body_tags(content) == BodyTagsFrom(content, 1)

TagChars == {"#", "a", "U+4F60", "2", "-", " "}

InitTags ==
  /\ input \in SeqsUpTo(TagChars, MaxContent)
  /\ output = None
  /\ files = <<>>
  /\ cursor = 0
  /\ articles = <<>>
  /\ status = "tags"

ExtractBodyTags ==
  /\ status = "tags"
  /\ ~output.some
  /\ output' = Some(extract_body_tags(input))
  /\ UNCHANGED <<input, files, cursor, articles, status>>

NextTags == ExtractBodyTags

SpecTags == InitTags /\ [][NextTags]_vars

\* The positions of content where a tag token of the given first-character
\* class starts (the position of its '#').
TokenStarts(content, First(_)) ==
  {i \in 1..Len(content) :
     content[i] = "#" /\ i + 1 <= Len(content) /\ First(content[i + 1])}

\* The token that starts at the '#' at position i: the longest run of
\* letters, digits and hyphens after it.
TokenAt(content, i) ==
  LET ends == {j \in (i + 1)..Len(content) :
                 /\ \A k \in (i + 1)..j : TagRest(content[k])
                 /\ (j = Len(content) \/ ~TagRest(content[j + 1]))}
  IN  SubSeq(content, i + 1, CHOOSE j \in ends : TRUE)

\* The elements of a set of positions in increasing order.
RECURSIVE Ascending(_)
Ascending(S) ==
  IF S = {} THEN <<>>
  ELSE LET m == CHOOSE x \in S : \A y \in S : x <= y
       IN  <<m>> \o Ascending(S \ {m})

TokensOf(content, First(_)) ==
  LET starts == Ascending(TokenStarts(content, First))
  IN  [n \in 1..Len(starts) |-> TokenAt(content, starts[n])]

\* C10 as stated: the result is, left to right, every token '#' followed by
\* one or more letters, digits or hyphens, so a token that starts with a
\* digit or a hyphen ("#2", "#-a") is extracted.
C10_AnyTagCharAfterHash ==
  output.some => output.value = TokensOf(input, TagStartAnyTagChar)

\* C10 amended: the result is, left to right, every token '#' followed by a
\* letter and then any number of letters, digits and hyphens; a '#' followed
\* by a digit or a hyphen starts no tag.
C10_LetterFirstTags ==
  output.some =>
    /\ output.value = TokensOf(input, IsLetter)
    /\ \A n \in 1..Len(output.value) : IsLetter(output.value[n][1])

\* C10, reached: "#2#a" yields the one tag "a".
C10_Witness ==
  /\ output.some
  /\ input = <<"#", "2", "#", "a">>
  /\ output.value = <<<<"a">>>>

(***************************************************************************)
(* Calendar dates: a NaiveDate is <<year, month, day>>.                    *)
(***************************************************************************)
IsLeapYear(y) == (y % 4 = 0 /\ y % 100 /= 0) \/ y % 400 = 0

DaysInMonth(y, m) ==
  CASE m \in {1, 3, 5, 7, 8, 10, 12} -> 31
    [] m \in {4, 6, 9, 11} -> 30
    [] m = 2 -> IF IsLeapYear(y) THEN 29 ELSE 28
    [] OTHER -> 0

\* NaiveDate::from_ymd_opt(y, m, d).is_some()
IsValidDate(y, m, d) == m \in 1..12 /\ d \in 1..DaysInMonth(y, m)

\* The number of digits of s from position i on, at most max of them.
RECURSIVE DigitRun(_, _, _)
DigitRun(s, i, max) ==
  IF max > 0 /\ i <= Len(s) /\ IsDigit(s[i])
  THEN 1 + DigitRun(s, i + 1, max - 1)
  ELSE 0

\* The decimal value of the n digits of s that start at position i.
RECURSIVE NumberAt(_, _, _)
NumberAt(s, i, n) ==
  IF n = 0 THEN 0
  ELSE 10 * NumberAt(s, i, n - 1) + DigitValue(s[i + n - 1])

\* NaiveDate::parse_from_str(s, "%Y-%m-%d").ok(): a year of one to four
\* digits, '-', a month of one or two digits, '-', a day of one or two
\* digits, nothing after it, and the three numbers a date of the calendar.
ParseNaiveDate(s) ==
  LET ny == DigitRun(s, 1, 4)
      im == ny + 2
      nm == DigitRun(s, im, 2)
      id == im + nm + 1
      nd == DigitRun(s, id, 2)
  IN  IF /\ ny > 0
         /\ ny + 1 <= Len(s) /\ s[ny + 1] = "-"
         /\ nm > 0
         /\ im + nm <= Len(s) /\ s[im + nm] = "-"
         /\ nd > 0
         /\ id + nd = Len(s) + 1
         /\ IsValidDate(NumberAt(s, 1, ny), NumberAt(s, im, nm), NumberAt(s, id, nd))
      THEN Some(<<NumberAt(s, 1, ny), NumberAt(s, im, nm), NumberAt(s, id, nd)>>)
      ELSE None

(***************************************************************************)
(* extract_metadata_from_path and RE_FILENAME_DATE: four digits, a         *)
(* character that is no ASCII letter or digit, two digits, such a          *)
(* character, two digits, such a character, and a non-empty rest.          *)
(***************************************************************************)
\* A variant of the separator class that admits the hyphen only.
IsHyphenOnly(c) == c = "-"

\* [^[:alnum:]]
IsFilenameSeparator(c) == ~IsAsciiAlnum(c)

\* RE_FILENAME_DATE.captures(stem): the four groups of the match, or None.
FilenameDateCaptures(stem) ==
  IF /\ Len(stem) >= 12
     /\ \A i \in {1, 2, 3, 4, 6, 7, 9, 10} : IsDigit(stem[i])
     /\ \A i \in {5, 8, 11} : IsFilenameSeparator(stem[i])
  THEN Some([year |-> SubSeq(stem, 1, 4), month |-> SubSeq(stem, 6, 7),
             day |-> SubSeq(stem, 9, 10), rest |-> Drop(stem, 11)])
  ELSE None

\* str::replace(['-', '_'], " ")
HyphensToSpaces(s) ==
  [i \in 1..Len(s) |-> IF s[i] \in {"-", "_"} THEN " " ELSE s[i]]

\* The result is <<title, date_opt>> in the source; here a record.
extract_metadata_from_path(stem) ==
  LET caps == FilenameDateCaptures(stem)
      date_str == caps.value.year \o <<"-">> \o caps.value.month
                    \o <<"-">> \o caps.value.day
      date_opt == IF caps.some THEN ParseNaiveDate(date_str) ELSE None
      title_slug == IF caps.some THEN caps.value.rest ELSE stem
  IN  [title |-> HyphensToSpaces(title_slug), date |-> date_opt]

YearParts == {<<"2", "0", "2", "4">>, <<"2", "0", "2", "3">>, <<"2", "0", "2">>}

SeparatorParts == {<<"-">>, <<"_">>, <<".">>, <<"x">>, <<"U+4F60">>, <<>>}

MonthParts == {<<"0", "2">>, <<"1", "0">>, <<"1", "3">>, <<"0", "0">>}

DayParts == {<<"2", "9">>, <<"2", "6">>, <<"3", "1">>, <<"0", "0">>}

RestParts ==
  {<<>>, <<"a">>,
   <<"m", "y", "-", "g", "r", "e", "a", "t", "_", "p", "o", "s", "t">>}

\* File names: a date-like head and a rest, put together from parts.
FileNameParts ==
  [year : YearParts, sep1 : SeparatorParts, month : MonthParts,
   sep2 : SeparatorParts, day : DayParts, sep3 : SeparatorParts,
   rest : RestParts]

\* path.file_stem() of the file name made of the parts p.
StemOf(p) == p.year \o p.sep1 \o p.month \o p.sep2 \o p.day \o p.sep3 \o p.rest

InitPath ==
  /\ input \in FileNameParts
  /\ output = None
  /\ files = <<>>
  /\ cursor = 0
  /\ articles = <<>>
  /\ status = "path"

ExtractMetadataFromPath ==
  /\ status = "path"
  /\ ~output.some
  /\ output' = Some(extract_metadata_from_path(StemOf(input)))
  /\ UNCHANGED <<input, files, cursor, articles, status>>

NextPath == ExtractMetadataFromPath

SpecPath == InitPath /\ [][NextPath]_vars

\* The parts p follow the convention YYYY<sep>MM<sep>DD<sep>rest.
FollowsDateConvention(p) ==
  /\ Len(p.year) = 4 /\ Len(p.month) = 2 /\ Len(p.day) = 2
  /\ \A part \in {p.year, p.month, p.day} :
       \A i \in 1..Len(part) : part[i] \in Digits
  /\ \A sep \in {p.sep1, p.sep2, p.sep3} :
       Len(sep) = 1 /\ sep[1] \notin AsciiLower \cup AsciiUpper \cup Digits
  /\ p.rest /= <<>>

\* t is s with every '-' and '_' turned into a space.
IsSpacedTitle(t, s) ==
  /\ Len(t) = Len(s)
  /\ \A i \in 1..Len(s) :
       IF s[i] = "-" \/ s[i] = "_" THEN t[i] = " " ELSE t[i] = s[i]

\* C9: extract_metadata_from_path always returns; a stem that follows the
\* convention with a valid calendar date yields that date and the rest with
\* '-' and '_' as spaces; one with an invalid date yields no date and the
\* same title; any other stem yields no date and the whole stem as title.
C9_FilenameMetadata ==
  output.some =>
    LET y == NumberAt(input.year, 1, Len(input.year))
        m == NumberAt(input.month, 1, Len(input.month))
        d == NumberAt(input.day, 1, Len(input.day))
    IN  IF FollowsDateConvention(input)
        THEN /\ IsSpacedTitle(output.value.title, input.rest)
             /\ output.value.date =
                  IF IsValidDate(y, m, d) THEN Some(<<y, m, d>>) ELSE None
        ELSE /\ IsSpacedTitle(output.value.title, StemOf(input))
             /\ output.value.date = None

\* C9, reached: 2024_10.26-my-great_post yields 2024-10-26 and "my great post".
C9_Witness ==
  /\ output.some
  /\ StemOf(input) = <<"2", "0", "2", "4", "_", "1", "0", ".", "2", "6", "-",
                       "m", "y", "-", "g", "r", "e", "a", "t", "_", "p", "o", "s", "t">>
  /\ output.value.date = Some(<<2024, 10, 26>>)
  /\ output.value.title =
       <<"m", "y", " ", "g", "r", "e", "a", "t", " ", "p", "o", "s", "t">>

(***************************************************************************)
(* generate_share_links.                                                   *)
(***************************************************************************)
\* The UTF-8 bytes of a character outside the unreserved set, in hex.
Utf8Hex(c) ==
  CASE c = "\t" -> <<<<"0", "9">>>>
    [] c = "\n" -> <<<<"0", "A">>>>
    [] c = " " -> <<<<"2", "0">>>>
    [] c = "\"" -> <<<<"2", "2">>>>
    [] c = "#" -> <<<<"2", "3">>>>
    [] c = "%" -> <<<<"2", "5">>>>
    [] c = "&" -> <<<<"2", "6">>>>
    [] c = "'" -> <<<<"2", "7">>>>
    [] c = "(" -> <<<<"2", "8">>>>
    [] c = ")" -> <<<<"2", "9">>>>
    [] c = "+" -> <<<<"2", "B">>>>
    [] c = "," -> <<<<"2", "C">>>>
    [] c = "/" -> <<<<"2", "F">>>>
    [] c = ":" -> <<<<"3", "A">>>>
    [] c = ";" -> <<<<"3", "B">>>>
    [] c = "<" -> <<<<"3", "C">>>>
    [] c = "=" -> <<<<"3", "D">>>>
    [] c = ">" -> <<<<"3", "E">>>>
    [] c = "?" -> <<<<"3", "F">>>>
    [] c = "@" -> <<<<"4", "0">>>>
    [] c = "\\" -> <<<<"5", "C">>>>
    [] c = "{" -> <<<<"7", "B">>>>
    [] c = "}" -> <<<<"7", "D">>>>
    [] c = "U+4F60" -> <<<<"E", "4">>, <<"B", "D">>, <<"A", "0">>>>

\* urlencoding::encode keeps ASCII letters, digits, '-', '_', '.' and '~'.
IsUnreserved(c) == IsAsciiAlnum(c) \/ c \in {"-", "_", ".", "~"}

PercentEncodeChar(c) ==
  IF IsUnreserved(c) THEN <<c>>
  ELSE Flatten([k \in 1..Len(Utf8Hex(c)) |-> <<"%">> \o Utf8Hex(c)[k]])

\* urlencoding::encode
UrlEncode(s) == Flatten([i \in 1..Len(s) |-> PercentEncodeChar(s[i])])

\* str::replace(' ', "_")
SpacesToUnderscores(s) == [i \in 1..Len(s) |-> IF s[i] = " " THEN "_" ELSE s[i]]

\* Vec<String>::join(" ")
RECURSIVE JoinWithSpace(_)
JoinWithSpace(ss) ==
  IF ss = <<>> THEN <<>>
  ELSE IF Len(ss) = 1 THEN ss[1]
  ELSE ss[1] \o <<" ">> \o JoinWithSpace(Tail(ss))

\* "#tag1 #tag2", a space inside a tag turned into '_'.
TagsString(tags) ==
  JoinWithSpace([i \in 1..Len(tags) |-> <<"#">> \o SpacesToUnderscores(tags[i])])

\* str::replace(pat, to): every non-overlapping match, left to right.
RECURSIVE ReplaceAll(_, _, _)
ReplaceAll(s, pat, to) ==
  IF Len(s) < Len(pat) THEN s
  ELSE IF s[1] = pat[1] /\ SubSeq(s, 1, Len(pat)) = pat
       THEN to \o ReplaceAll(Drop(s, Len(pat)), pat, to)
       ELSE <<Head(s)>> \o ReplaceAll(Tail(s), pat, to)

PlaceholderUrl == <<"{", "U", "R", "L", "}">>

PlaceholderTitle == <<"{", "T", "I", "T", "L", "E", "}">>

PlaceholderText == <<"{", "T", "E", "X", "T", "}">>

PlaceholderTags == <<"{", "T", "A", "G", "S", "}">>

\* An expansion that leaves {TAGS} in place.
FinalUrlWithoutTags(template, url_encoded, title_encoded, text_encoded, tags_encoded) ==
  ReplaceAll(
    ReplaceAll(
      ReplaceAll(template, PlaceholderUrl, url_encoded),
      PlaceholderTitle, title_encoded),
    PlaceholderText, text_encoded)

\* The expansion of one provider's template.
FinalUrl(template, url_encoded, title_encoded, text_encoded, tags_encoded) ==
  ReplaceAll(
    ReplaceAll(
      ReplaceAll(
        ReplaceAll(template, PlaceholderUrl, url_encoded),
        PlaceholderTitle, title_encoded),
      PlaceholderText, text_encoded),
    PlaceholderTags, tags_encoded)

generate_share_links(providers, url, title, text, tags) ==
  LET url_to_encode == IF url.some THEN url.value ELSE <<>>
      url_encoded == UrlEncode(url_to_encode)
      title_encoded == UrlEncode(title)
      text_encoded == UrlEncode(text)
      tags_encoded == UrlEncode(TagsString(tags))
  IN  [i \in 1..Len(providers) |->
         [provider_name |-> providers[i].provider_name,
          url |-> FinalUrl(providers[i].template, url_encoded, title_encoded,
                           text_encoded, tags_encoded)]]

\* Pieces of provider templates: the placeholders, braces and literal text.
\* (A pattern is never empty: the four placeholders are the only patterns.)
TemplateFragments ==
  {PlaceholderUrl, PlaceholderTitle, PlaceholderText, PlaceholderTags,
   <<"{">>, <<"}">>, <<"&", "u", "=">>}

\* The second provider of every run: ?t={TEXT}
FixedTemplate == <<"?", "t", "=">> \o PlaceholderText

ShareUrls == {None, Some(<<"a", ":", "/", "b">>)}

ShareTags == <<<<"m", "y", " ", "t">>, <<"b">>>>

\* Titles of articles: "Hi", and an article that is named TEXT.
ShareTitles == {<<"H", "i">>, <<"T", "E", "X", "T">>}

ShareText == <<"a", " ", "U+4F60">>

InitShare ==
  /\ \E frags \in SeqsUpTo(TemplateFragments, MaxTemplate) :
       \E url \in ShareUrls, title \in ShareTitles :
         input = [providers |-> <<[provider_name |-> "P", template |-> Flatten(frags)],
                                  [provider_name |-> "X", template |-> FixedTemplate]>>,
                  url |-> url, title |-> title, text |-> ShareText,
                  tags |-> ShareTags]
  /\ output = None
  /\ files = <<>>
  /\ cursor = 0
  /\ articles = <<>>
  /\ status = "share"

GenerateShareLinks ==
  /\ status = "share"
  /\ ~output.some
  /\ output' = Some(generate_share_links(input.providers, input.url, input.title,
                                         input.text, input.tags))
  /\ UNCHANGED <<input, files, cursor, articles, status>>

NextShare == GenerateShareLinks

SpecShare == InitShare /\ [][NextShare]_vars

\* The placeholders and what each stands for, for the inputs inp.
Substitutions(inp) ==
  {[pat |-> PlaceholderUrl,
    to |-> UrlEncode(IF inp.url.some THEN inp.url.value ELSE <<>>)],
   [pat |-> PlaceholderTitle, to |-> UrlEncode(inp.title)],
   [pat |-> PlaceholderText, to |-> UrlEncode(inp.text)],
   [pat |-> PlaceholderTags, to |-> UrlEncode(TagsString(inp.tags))]}

\* One pass over the template that replaces each placeholder where it stands.
RECURSIVE Simultaneous(_, _)
Simultaneous(t, subs) ==
  IF t = <<>> THEN <<>>
  ELSE LET here == {sb \in subs : t[1] = sb.pat[1] /\ StartsWith(t, sb.pat)}
       IN  IF here = {} THEN <<Head(t)>> \o Simultaneous(Tail(t), subs)
           ELSE LET sb == CHOOSE x \in here : TRUE
                IN  sb.to \o Simultaneous(Drop(t, Len(sb.pat)), subs)

\* The replacements applied one after the other in the order given.
RECURSIVE Sequential(_, _)
Sequential(t, order) ==
  IF order = <<>> THEN t
  ELSE Sequential(ReplaceAll(t, Head(order).pat, Head(order).to), Tail(order))

Orders(subs) ==
  {o \in [1..Cardinality(subs) -> subs] : \A i, j \in 1..Len(o) : i /= j => o[i] /= o[j]}

\* Every brace of the template belongs to one of the four placeholders.
BracesOnlyInPlaceholders(t) ==
  LET blank == {[pat |-> sb.pat, to |-> <<>>] : sb \in Substitutions(input)}
      left == Simultaneous(t, blank)
  IN  \A i \in 1..Len(left) : left[i] \notin {"{", "}"}

OrderIndependent(i) ==
  LET t == input.providers[i].template
      subs == Substitutions(input)
  IN  /\ output.value[i].url = Simultaneous(t, subs)
      /\ \A o \in Orders(subs) : Sequential(t, o) = Simultaneous(t, subs)

\* C8 as stated: for every template, malformed ones included, the expanded
\* URL is the simultaneous replacement of the four placeholders and the same
\* in whatever order the four replacements are applied.
C8_AnyTemplateOrderIndependent ==
  output.some => \A i \in 1..Len(output.value) : OrderIndependent(i)

\* C8 amended: the same, for every template whose braces all belong to
\* occurrences of the four placeholders.
C8_WellFormedOrderIndependent ==
  output.some =>
    \A i \in 1..Len(output.value) :
      BracesOnlyInPlaceholders(input.providers[i].template) => OrderIndependent(i)

\* C8, reached: {TAGS}{URL}{TAGS} expanded with no link_url.
C8_Witness ==
  /\ output.some
  /\ ~input.url.some
  /\ input.providers[1].template =
       PlaceholderTags \o PlaceholderUrl \o PlaceholderTags
  /\ output.value[1].url =
       <<"%", "2", "3", "m", "y", "_", "t", "%", "2", "0", "%", "2", "3", "b",
         "%", "2", "3", "m", "y", "_", "t", "%", "2", "0", "%", "2", "3", "b">>

(***************************************************************************)
(* validate_resource_urls and RE_HTML_RESOURCES: src= or href=, a quote of *)
(* either kind, as few characters as possible (none a line break), and a   *)
(* quote of either kind.                                                   *)
(***************************************************************************)
Quotes == {"\"", "'"}

\* The length of the attribute name and '=' that start at position i, or 0.
ResourceNameAt(html, i) ==
  IF StartsWith(Drop(html, i - 1), <<"s", "r", "c", "=">>) THEN 4
  ELSE IF StartsWith(Drop(html, i - 1), <<"h", "r", "e", "f", "=">>) THEN 5
  ELSE 0

\* The position of the first quote at or after j with no line break before
\* it, or 0.
RECURSIVE ClosingQuote(_, _)
ClosingQuote(html, j) ==
  IF j > Len(html) \/ html[j] = "\n" THEN 0
  ELSE IF html[j] \in Quotes THEN j
  ELSE ClosingQuote(html, j + 1)

\* RE_HTML_RESOURCES.captures_iter(html) from position i on: group 1 of
\* each match.
RECURSIVE ResourceCapturesFrom(_, _)
ResourceCapturesFrom(html, i) ==
  IF i > Len(html) THEN <<>>
  ELSE LET n == IF html[i] \in {"s", "h"} THEN ResourceNameAt(html, i) ELSE 0
           open == i + n
           close == IF n > 0 /\ open <= Len(html) /\ html[open] \in Quotes
                    THEN ClosingQuote(html, open + 1)
                    ELSE 0
       IN  IF close > 0
           THEN <<SubSeq(html, open + 1, close - 1)>>
                  \o ResourceCapturesFrom(html, close + 1)
           ELSE ResourceCapturesFrom(html, i + 1)

\* The position of the ':' that ends the scheme of s, or 0: a scheme is an
\* ASCII letter followed by ASCII letters, digits, '+', '-' and '.'.
SchemeEnd(s) ==
  LET colons == {k \in 2..Len(s) :
                   /\ s[k] = ":"
                   /\ s[1] \in AsciiLower \cup AsciiUpper
                   /\ \A i \in 2..(k - 1) : IsAsciiAlnum(s[i]) \/ s[i] \in {"+", "-", "."}}
  IN  IF colons = {} THEN 0 ELSE CHOOSE k \in colons : \A l \in colons : k <= l

\* The schemes for which the url crate requires a host.
SpecialSchemes ==
  {<<"h", "t", "t", "p">>, <<"h", "t", "t", "p", "s">>, <<"f", "t", "p">>,
   <<"w", "s">>, <<"w", "s", "s">>}

\* The number of characters of s from position i on that are in the set.
RECURSIVE RunOf(_, _, _)
RunOf(s, i, set) ==
  IF i <= Len(s) /\ s[i] \in set THEN 1 + RunOf(s, i + 1, set) ELSE 0

\* The number of characters of s from position i on that are not in the set.
RECURSIVE RunUntil(_, _, _)
RunUntil(s, i, set) ==
  IF i <= Len(s) /\ s[i] \notin set THEN 1 + RunUntil(s, i + 1, set) ELSE 0

\* Url::parse(s): Ok, or the ParseError.  A string without a scheme is a
\* relative reference and has no base; after a special scheme the slashes
\* are skipped and a host must follow; any other scheme is accepted with or
\* without an authority.
UrlParse(s) ==
  LET k == SchemeEnd(s)
      host_at == k + 1 + RunOf(s, k + 1, {"/", "\\"})
  IN  IF k = 0 THEN "RelativeUrlWithoutBase"
      ELSE IF SubSeq(s, 1, k - 1) \in SpecialSchemes
                /\ RunUntil(s, host_at, {"/", "\\", "?", "#"}) = 0
           THEN "EmptyHost"
           ELSE "Ok"

\* A skip test that forgets the page-local anchors.
IsSkippedWithoutAnchors(url_str) ==
  url_str = <<>> \/ StartsWith(url_str, <<"d", "a", "t", "a", ":">>)

\* url_str.is_empty() || url_str.starts_with('#') || url_str.starts_with("data:")
IsSkipped(url_str) ==
  \/ url_str = <<>>
  \/ StartsWith(url_str, <<"#">>)
  \/ StartsWith(url_str, <<"d", "a", "t", "a", ":">>)

\* The loop over the captures: the first value that is neither skipped nor
\* parsed ends it with the error.
RECURSIVE ValidateCaptures(_, _)
ValidateCaptures(caps, source_file) ==
  IF caps = <<>> THEN [ok |-> TRUE]
  ELSE IF IsSkipped(Head(caps)) THEN ValidateCaptures(Tail(caps), source_file)
  ELSE IF UrlParse(Head(caps)) /= "Ok"
       THEN [ok |-> FALSE, error |-> "Validation failed",
             file |-> source_file, link |-> Head(caps)]
       ELSE ValidateCaptures(Tail(caps), source_file)

validate_resource_urls(html_content, source_file) ==
  ValidateCaptures(ResourceCapturesFrom(html_content, 1), source_file)

UrlHttps ==
  <<"h", "t", "t", "p", "s", ":", "/", "/", "x", ".", "c", "o", "m", "/",
    "a", ".", "p", "n", "g">>

UrlAnchor == <<"#", "t", "o", "p">>

UrlData ==
  <<"d", "a", "t", "a", ":", "i", "m", "a", "g", "e", "/", "p", "n", "g", ";",
    "b", "a", "s", "e", "6", "4", ",", "A", "A">>

UrlLocal == <<"/", "l", "o", "c", "a", "l", ".", "p", "n", "g">>

UrlRelative == <<"r", "e", "l", "a", "t", "i", "v", "e", ".", "h", "t", "m", "l">>

UrlMailto == <<"m", "a", "i", "l", "t", "o", ":", "a", "@", "b", ".", "c">>

UrlNoHost == <<"h", "t", "t", "p", "s", ":", "/", "/">>

UrlApostrophe == <<"i", "t", "'", "s">>

AttributeValues ==
  {<<>>, UrlHttps, UrlAnchor, UrlData, UrlLocal, UrlRelative, UrlMailto,
   UrlNoHost, UrlApostrophe}

\* The attributes of the tags of a document: src and href in double quotes
\* with every value, an attribute that is no resource, and single quotes.
Attributes ==
  [name : {<<"s", "r", "c">>, <<"h", "r", "e", "f">>}, quote : {"\""},
   value : AttributeValues]
    \cup [name : {<<"a", "l", "t">>}, quote : {"\""}, value : {UrlLocal}]
    \cup [name : {<<"h", "r", "e", "f">>}, quote : {"'"},
          value : {UrlHttps, UrlRelative}]

\* The tag <a name="value">.
TagOf(a) ==
  <<"<", "a", " ">> \o a.name \o <<"=", a.quote>> \o a.value \o <<a.quote, ">">>

HtmlOf(attrs) == Flatten([i \in 1..Len(attrs) |-> TagOf(attrs[i])])

SourceFile == "post.md"

InitUrls ==
  /\ input \in SeqsUpTo(Attributes, MaxAttributes)
  /\ output = None
  /\ files = <<>>
  /\ cursor = 0
  /\ articles = <<>>
  /\ status = "urls"

ValidateResourceUrls ==
  /\ status = "urls"
  /\ ~output.some
  /\ output' = Some(validate_resource_urls(HtmlOf(input), SourceFile))
  /\ UNCHANGED <<input, files, cursor, articles, status>>

NextUrls == ValidateResourceUrls

SpecUrls == InitUrls /\ [][NextUrls]_vars

\* The scheme of v: what stands before its first ':', when that is a letter
\* followed by letters, digits, '+', '-' and '.'; <<>> when v has none.
SchemeOf(v) ==
  IF \E k \in 2..Len(v) :
       /\ v[k] = ":"
       /\ \A i \in 1..(k - 1) : v[i] /= ":"
       /\ v[1] \in AsciiLower \cup AsciiUpper
       /\ \A i \in 1..(k - 1) :
            v[i] \in AsciiLower \cup AsciiUpper \cup Digits \cup {"+", "-", "."}
  THEN SubSeq(v, 1, (CHOOSE k \in 1..Len(v) : v[k] = ":" /\ \A i \in 1..(k - 1) : v[i] /= ":") - 1)
  ELSE <<>>

\* v has an authority: "//" and a non-empty host after the scheme.
HasAuthority(v) ==
  LET after == Drop(v, Len(SchemeOf(v)) + 1)
  IN  /\ StartsWith(after, <<"/", "/">>)
      /\ Len(after) > 2
      /\ after[3] \notin {"/", "\\", "?", "#"}

\* v has something other than slashes right after the scheme.
HasHost(v) ==
  \E i \in (Len(SchemeOf(v)) + 2)..Len(v) :
    /\ v[i] \notin {"/", "\\", "?", "#"}
    /\ \A j \in (Len(SchemeOf(v)) + 2)..(i - 1) : v[j] \in {"/", "\\"}

\* The value is exempt from validation: empty, a page-local anchor or a data URI.
IsExempt(v) ==
  v = <<>> \/ v[1] = "#" \/ (Len(v) >= 5 /\ SubSeq(v, 1, 5) = <<"d", "a", "t", "a", ":">>)

\* The attributes of the document that name resources.
ResourceAttributes == {i \in 1..Len(input) : input[i].name \in {<<"s", "r", "c">>, <<"h", "r", "e", "f">>}}

\* C7 as stated: Ok exactly when every src/href value that is not exempt is
\* an absolute URL with a scheme and an authority.
C7_SchemeAndAuthority ==
  output.some =>
    (output.value.ok <=>
       \A i \in ResourceAttributes :
         IsExempt(input[i].value)
           \/ (SchemeOf(input[i].value) /= <<>> /\ HasAuthority(input[i].value)))

\* The value as the pattern captures it: up to its first quote of either kind.
Captured(v) == SubSeq(v, 1, RunUntil(v, 1, Quotes))

\* The value parses as an absolute URL: it has a scheme, and a host too
\* when the scheme is http, https, ftp, ws or wss.
IsAbsolute(v) ==
  /\ SchemeOf(v) /= <<>>
  /\ SchemeOf(v) \in SpecialSchemes => HasHost(v)

\* C7 amended: Ok exactly when every captured src/href value (the text
\* between the opening quote and the next quote of either kind) that is not
\* exempt has a scheme and, for http, https, ftp, ws and wss, a host; an
\* authority is not required of other schemes.  A failure names the file
\* and the first offending value.
C7_AbsoluteByScheme ==
  output.some =>
    LET bad == {i \in ResourceAttributes :
                  ~IsExempt(Captured(input[i].value))
                    /\ ~IsAbsolute(Captured(input[i].value))}
    IN  /\ output.value.ok <=> bad = {}
        /\ ~output.value.ok =>
             /\ output.value.file = SourceFile
             /\ \E i \in bad :
                  /\ \A j \in bad : i <= j
                  /\ output.value.link = Captured(input[i].value)

\* C7, reached: a mailto: source is passed and /local.png is named in the error.
C7_Witness ==
  /\ output.some
  /\ Len(input) = 2
  /\ input[1].value = UrlMailto
  /\ input[2].value = UrlLocal
  /\ input[2].name = <<"s", "r", "c">>
  /\ output.value = [ok |-> FALSE, error |-> "Validation failed",
                     file |-> SourceFile, link |-> UrlLocal]

(***************************************************************************)
(* Helpers of the two parsers.                                             *)
(***************************************************************************)
\* The length in days of year y.
DaysInYear(y) == IF IsLeapYear(y) THEN 366 ELSE 365

\* The date that is n days after the first of January of year y.
RECURSIVE DateInYear(_, _, _)
DateInYear(y, m, n) ==
  IF n >= DaysInMonth(y, m) THEN DateInYear(y, m + 1, n - DaysInMonth(y, m))
  ELSE <<y, m, n + 1>>

RECURSIVE DateFromDays(_, _)
DateFromDays(y, n) ==
  IF n >= DaysInYear(y) THEN DateFromDays(y + 1, n - DaysInYear(y))
  ELSE DateInYear(y, 1, n)

SecondsPerDay == 86400

EpochYear == 1970

\* system_time_to_naive_date: the UTC date of a time given in seconds since
\* the Unix epoch (none of the model is before it).
system_time_to_naive_date(st) == DateFromDays(EpochYear, st \div SecondsPerDay)

\* RE_FIRST_URL: http:// or https:// and at least one character that is
\* neither white space nor one of ( ) < >.
UrlStopChars == {" ", "\n", "\t", "(", ")", "<", ">"}

FirstUrlPrefixAt(content, i) ==
  IF StartsWith(Drop(content, i - 1), <<"h", "t", "t", "p", ":", "/", "/">>) THEN 7
  ELSE IF StartsWith(Drop(content, i - 1), <<"h", "t", "t", "p", "s", ":", "/", "/">>) THEN 8
  ELSE 0

RECURSIVE FirstUrlFrom(_, _)
FirstUrlFrom(content, i) ==
  IF i > Len(content) THEN None
  ELSE LET n == IF content[i] = "h" THEN FirstUrlPrefixAt(content, i) ELSE 0
           more == RunUntil(content, i + n, UrlStopChars)
       IN  IF n > 0 /\ more > 0
           THEN Some(SubSeq(content, i, i + n + more - 1))
           ELSE FirstUrlFrom(content, i + 1)

extract_first_url(content) == FirstUrlFrom(content, 1)

\* html_escape::encode_text: & < > become entities.
EncodeTextChar(c) ==
  CASE c = "&" -> <<"&", "a", "m", "p", ";">>
    [] c = "<" -> <<"&", "l", "t", ";">>
    [] c = ">" -> <<"&", "g", "t", ";">>
    [] OTHER -> <<c>>

encode_text(s) == Flatten([i \in 1..Len(s) |-> EncodeTextChar(s[i])])

\* "<p>{}</p>" around the escaped content with "\n" replaced by "<br>".
TextHtml(content) ==
  <<"<", "p", ">">>
    \o ReplaceAll(encode_text(content), <<"\n">>, <<"<", "b", "r", ">">>)
    \o <<"<", "/", "p", ">">>

\* The characters of the model in the order of their code points.
CodePointOrder ==
  <<"\n", " ", "#", "-", "0", "1", "2", "3", "4", "5", "6", "7", "8", "9",
    "A", "B", "C", "D", "E", "F", "G", "H", "I", "J", "K", "L", "M",
    "N", "O", "P", "Q", "R", "S", "T", "U", "V", "W", "X", "Y", "Z", "_",
    "a", "b", "c", "d", "e", "f", "g", "h", "i", "j", "k", "l", "m",
    "n", "o", "p", "q", "r", "s", "t", "u", "v", "w", "x", "y", "z",
    "U+4F60">>

CodeRank(c) == CHOOSE i \in 1..Len(CodePointOrder) : CodePointOrder[i] = c

\* String's Ord: a < b, byte by byte (the order of the code points).
RECURSIVE StringLess(_, _)
StringLess(a, b) ==
  IF b = <<>> THEN FALSE
  ELSE IF a = <<>> THEN TRUE
  ELSE IF a[1] = b[1] THEN StringLess(Tail(a), Tail(b))
  ELSE CodeRank(a[1]) < CodeRank(b[1])

\* x put into the sorted v after every element that is not greater.
RECURSIVE InsertString(_, _)
InsertString(v, x) ==
  IF v = <<>> THEN <<x>>
  ELSE IF StringLess(x, Head(v)) THEN <<x>> \o v
  ELSE <<Head(v)>> \o InsertString(Tail(v), x)

\* Vec<String>::sort
RECURSIVE SortStrings(_)
SortStrings(v) ==
  IF v = <<>> THEN <<>>
  ELSE InsertString(SortStrings(SubSeq(v, 1, Len(v) - 1)), v[Len(v)])

\* Vec::dedup: of consecutive equal elements the first is kept.
RECURSIVE Dedup(_)
Dedup(v) ==
  IF Len(v) <= 1 THEN v
  ELSE IF v[1] = v[2] THEN Dedup(Tail(v))
  ELSE <<v[1]>> \o Dedup(Tail(v))

(***************************************************************************)
(* Files.  A file on disk is a record: its stem and extension, whether     *)
(* fs::read_to_string and fs::metadata succeed, the times of its metadata  *)
(* (seconds since the epoch; None where the platform has none), and its    *)
(* content: the frontmatter block of a Markdown file and the body.         *)
(* frontmatter.kind says what the block is: "absent", "ok" (a YAML mapping *)
(* whose fields have the types of Frontmatter), "mismatch" (YAML whose     *)
(* fields have other types) or "malformed" (not YAML).                     *)
(***************************************************************************)
NoFrontmatter ==
  [kind |-> "absent", title |-> None, description |-> None, tags |-> None,
   created |-> None, modified |-> None, link_url |-> None]

\* Matter::<YAML>::parse(content): the block decoded and the body, or the
\* error of the YAML engine.
MatterParse(file) ==
  IF file.frontmatter.kind = "malformed" THEN [ok |-> FALSE]
  ELSE [ok |-> TRUE,
        data |-> IF file.frontmatter.kind = "absent" THEN None
                 ELSE Some(file.frontmatter),
        content |-> file.body]

\* Pod::deserialize::<Frontmatter>()
Deserialize(pod) ==
  IF pod.kind = "mismatch" THEN [ok |-> FALSE]
  ELSE [ok |-> TRUE, value |-> pod]

\* html::push_html of a body that is one paragraph of plain text and inline
\* HTML: both pass through.
PushHtml(markdown_content) ==
  IF markdown_content = <<>> THEN <<>>
  ELSE <<"<", "p", ">">> \o markdown_content \o <<"<", "/", "p", ">", "\n">>

Err(kind) == [outcome |-> "Err", error |-> kind]

\* frontmatter.title.unwrap_or(path_title)
ResolveTitle(frontmatter_title, path_title) ==
  IF frontmatter_title.some THEN frontmatter_title.value ELSE path_title

\* A date chain in which the filename comes before the frontmatter.
CreatedFilenameFirst(frontmatter_created, path_date, file_created_date, file_modified_date) ==
  OrOption(OrOption(OrOption(path_date,
                             IF frontmatter_created.some
                             THEN ParseNaiveDate(frontmatter_created.value)
                             ELSE None),
                    file_created_date),
           Some(file_modified_date))

\* frontmatter.created.and_then(parse).or(path_date).or(file_created_date)
\*   .or(Some(file_modified_date))
ResolveCreated(frontmatter_created, path_date, file_created_date, file_modified_date) ==
  OrOption(OrOption(OrOption(IF frontmatter_created.some
                             THEN ParseNaiveDate(frontmatter_created.value)
                             ELSE None,
                             path_date),
                    file_created_date),
           Some(file_modified_date))

\* tags.sort(); tags.dedup()
SortAndDedup(tags) == Dedup(SortStrings(tags))

parse_text_file(file, share_providers) ==
  LET meta == extract_metadata_from_path(file.stem)
      path_title == meta.title
      path_date == meta.date
  IN  IF ~file.readable THEN Err("Io")
      ELSE IF ~file.metadata.available THEN Err("Io")
      ELSE IF ~file.metadata.modified.some THEN Err("Io")
      ELSE
      LET content == file.body
          modified_date == system_time_to_naive_date(file.metadata.modified.value)
          created_date ==
            OrOption(path_date,
                     IF file.metadata.created.some
                     THEN Some(system_time_to_naive_date(file.metadata.created.value))
                     ELSE None)
          link_url == extract_first_url(content)
          tags == extract_body_tags(content)
      IN  [outcome |-> "Ok",
           article |->
             [title |-> path_title,
              description |-> <<>>,
              tags |-> tags,
              html_content |-> TextHtml(content),
              slug |-> file.stem,
              content |-> content,
              created |-> OrOption(created_date, Some(modified_date)),
              modified |-> Some(modified_date),
              link_url |-> link_url,
              share_links |->
                generate_share_links(share_providers, link_url, path_title,
                                     content, tags)]]

parse_markdown_file(file, share_providers) ==
  LET meta == extract_metadata_from_path(file.stem)
      path_title == meta.title
      path_date == meta.date
  IN  IF ~file.readable THEN Err("Io")
      ELSE IF ~file.metadata.available THEN Err("Io")
      ELSE IF ~file.metadata.modified.some THEN Err("Io")
      ELSE IF ~MatterParse(file).ok THEN [outcome |-> "Panic"]
      ELSE IF MatterParse(file).data.some /\ ~Deserialize(MatterParse(file).data.value).ok
      THEN Err("FrontmatterDecode")
      ELSE
      LET file_modified_date == system_time_to_naive_date(file.metadata.modified.value)
          file_created_date ==
            IF file.metadata.created.some
            THEN Some(system_time_to_naive_date(file.metadata.created.value))
            ELSE None
          result == MatterParse(file)
          frontmatter ==
            IF result.data.some THEN Deserialize(result.data.value).value
            ELSE NoFrontmatter
          title == ResolveTitle(frontmatter.title, path_title)
          created_date ==
            ResolveCreated(frontmatter.created, path_date, file_created_date,
                           file_modified_date)
          parsed_modified ==
            IF frontmatter.modified.some
            THEN ParseNaiveDate(frontmatter.modified.value)
            ELSE None
          modified_date ==
            IF parsed_modified.some THEN parsed_modified.value
            ELSE file_modified_date
          markdown_content == result.content
          link_url ==
            IF frontmatter.link_url.some THEN frontmatter.link_url
            ELSE extract_first_url(markdown_content)
          tags ==
            SortAndDedup((IF frontmatter.tags.some THEN frontmatter.tags.value ELSE <<>>)
                           \o extract_body_tags(markdown_content))
          html_content == PushHtml(markdown_content)
          validation == validate_resource_urls(html_content, file.stem)
      IN  IF ~validation.ok THEN Err("ResourceLink")
          ELSE [outcome |-> "Ok",
                article |->
                  [title |-> title,
                   description |->
                     IF frontmatter.description.some
                     THEN frontmatter.description.value ELSE <<>>,
                   tags |-> tags,
                   html_content |-> html_content,
                   slug |-> file.stem,
                   content |-> markdown_content,
                   created |-> created_date,
                   modified |-> Some(modified_date),
                   link_url |-> link_url,
                   share_links |->
                     generate_share_links(share_providers, link_url, title,
                                          markdown_content, tags)]]

parse_file(file, share_providers) ==
  CASE file.extension = "md" -> parse_markdown_file(file, share_providers)
    [] file.extension = "txt" -> parse_text_file(file, share_providers)
    [] OTHER -> Err("UnsupportedFileType")

(***************************************************************************)
(* One file parsed: the inputs of parse_file.                              *)
(***************************************************************************)
StemDated == <<"2", "0", "2", "4", "-", "1", "0", "-", "2", "6", "-", "a">>

StemPlain == <<"b", "_", "c">>

\* 2024-01-01 01:00:00 UTC: 19723 days and an hour after the epoch.
TimeJanuary == 19723 * SecondsPerDay + 3600

\* 2024-03-01 13:33:20 UTC
TimeMarch == 19783 * SecondsPerDay + 48800

FileTimes ==
  {[available |-> TRUE, modified |-> Some(TimeMarch), created |-> Some(TimeJanuary)],
   [available |-> TRUE, modified |-> Some(TimeMarch), created |-> None],
   [available |-> TRUE, modified |-> None, created |-> None],
   [available |-> FALSE, modified |-> None, created |-> None]}

CreatedValid == <<"2", "0", "2", "3", "-", "0", "1", "-", "0", "1">>

CreatedNoSuchDay == <<"2", "0", "2", "3", "-", "0", "2", "-", "3", "0">>

CreatedNoDate == <<"s", "o", "o", "n">>

Frontmatters ==
  {NoFrontmatter,
   [NoFrontmatter EXCEPT !.kind = "malformed"],
   [NoFrontmatter EXCEPT !.kind = "mismatch"]}
    \cup [kind : {"ok"},
          title : {None, Some(<<>>), Some(<<"T">>)},
          description : {None},
          tags : {None, Some(<<<<"b">>, <<"a">>>>)},
          created : {None, Some(CreatedValid), Some(CreatedNoSuchDay), Some(CreatedNoDate)},
          modified : {None},
          link_url : {None}]

BodyTags == <<"#", "b", " ", "#", "a", " ", "#", "b">>

BodyLocalImage ==
  <<"#", "a", " ">> \o TagOf([name |-> <<"s", "r", "c">>, quote |-> "\"", value |-> UrlLocal])

BodyLink ==
  <<"h", "t", "t", "p", "s", ":", "/", "/", "x", ".", "c", "o", "m", " ", "#", "a">>

Bodies == {<<>>, BodyTags, BodyLocalImage, BodyLink}

MarkdownFiles ==
  [stem : {StemDated, StemPlain}, extension : {"md"}, readable : BOOLEAN,
   metadata : FileTimes, frontmatter : Frontmatters, body : Bodies]

TextFiles ==
  [stem : {StemDated, StemPlain}, extension : {"txt"}, readable : BOOLEAN,
   metadata : FileTimes, frontmatter : {NoFrontmatter}, body : Bodies]

\* An entry of another extension handed to parse_file.
OtherFiles ==
  [stem : {StemPlain}, extension : {"png"}, readable : {TRUE},
   metadata : {[available |-> TRUE, modified |-> Some(TimeMarch), created |-> None]},
   frontmatter : {NoFrontmatter}, body : {<<>>}]

ShareProviders == <<[provider_name |-> "X", template |-> FixedTemplate]>>

InitParse ==
  /\ input \in MarkdownFiles \cup TextFiles \cup OtherFiles
  /\ output = None
  /\ files = <<>>
  /\ cursor = 0
  /\ articles = <<>>
  /\ status = "parse"

ParseFile ==
  /\ status = "parse"
  /\ ~output.some
  /\ output' = Some(parse_file(input, ShareProviders))
  /\ UNCHANGED <<input, files, cursor, articles, status>>

NextParse == ParseFile

SpecParse == InitParse /\ [][NextParse]_vars

Parsed == output.some /\ output.value.outcome = "Ok"

\* C4: the tags of every article, of a Markdown file or of a text file, are
\* in lexicographic order without duplicates, and deduplicating them again
\* changes nothing.
C4_TagsSortedUnique ==
  Parsed =>
    LET tags == output.value.article.tags
    IN  /\ \A i, j \in 1..Len(tags) : i < j => StringLess(tags[i], tags[j])
        /\ Dedup(tags) = tags

\* C5: no article has an empty title; an empty frontmatter title falls
\* through to the title of the file name, which is the title of a text file.
C5_TitleNeverEmpty ==
  Parsed =>
    LET title == output.value.article.title
        from_name == IF input.stem = StemDated THEN <<"a">> ELSE <<"b", " ", "c">>
    IN  /\ title /= <<>>
        /\ title = IF /\ input.extension = "md"
                      /\ input.frontmatter.title.some
                      /\ input.frontmatter.title.value /= <<>>
                   THEN input.frontmatter.title.value
                   ELSE from_name

\* What the dates of the inputs are.
DateOfCreatedField(text) == IF text = CreatedValid THEN Some(<<2023, 1, 1>>) ELSE None

DateOfStem(stem) == IF stem = StemDated THEN Some(<<2024, 10, 26>>) ELSE None

DateOfTime(t) == IF t = TimeJanuary THEN <<2024, 1, 1>> ELSE <<2024, 3, 1>>

DateLess(a, b) ==
  \/ a[1] < b[1]
  \/ a[1] = b[1] /\ a[2] < b[2]
  \/ a[1] = b[1] /\ a[2] = b[2] /\ a[3] < b[3]

\* Option<NaiveDate>'s Ord: None is less than every Some.
OptionDateLess(a, b) ==
  \/ ~a.some /\ b.some
  \/ a.some /\ b.some /\ DateLess(a.value, b.value)

\* A comparator for ascending order: a.created.cmp(&b.created) = Less.
CreatedAscending(a, b) == OptionDateLess(a.created, b.created)

\* The comparator of the sort, b.created.cmp(&a.created), is Less: a is to
\* stand before b.
SortsBefore(a, b) == OptionDateLess(b.created, a.created)

\* x put into the sorted v before the first element it is to stand before.
RECURSIVE InsertArticle(_, _)
InsertArticle(v, x) ==
  IF v = <<>> THEN <<x>>
  ELSE IF SortsBefore(x, Head(v)) THEN <<x>> \o v
  ELSE <<Head(v)>> \o InsertArticle(Tail(v), x)

\* articles.sort_by(|a, b| b.created.cmp(&a.created)): a stable sort.
RECURSIVE SortByCreated(_)
SortByCreated(v) ==
  IF v = <<>> THEN <<>>
  ELSE InsertArticle(SortByCreated(SubSeq(v, 1, Len(v) - 1)), v[Len(v)])

GoodTimes ==
  [available |-> TRUE, modified |-> Some(TimeMarch), created |-> Some(TimeJanuary)]

StemDatedText == <<"2", "0", "2", "4", ".", "1", "0", ".", "2", "6", ".", "c">>

\* Markdown, created 2024-10-26 by its name.
FileDated ==
  [stem |-> StemDated, extension |-> "md", readable |-> TRUE,
   metadata |-> GoodTimes, frontmatter |-> NoFrontmatter, body |-> BodyTags]

\* Markdown, created 2023-01-01 by its frontmatter.
FileFrontmatter ==
  [stem |-> StemPlain, extension |-> "md", readable |-> TRUE,
   metadata |-> GoodTimes,
   frontmatter |-> [NoFrontmatter EXCEPT !.kind = "ok", !.title = Some(<<"T">>),
                                         !.created = Some(CreatedValid)],
   body |-> BodyLink]

\* Text, created 2024-10-26 by its name, as FileDated is.
FileText ==
  [stem |-> StemDatedText, extension |-> "txt", readable |-> TRUE,
   metadata |-> GoodTimes, frontmatter |-> NoFrontmatter, body |-> BodyTags]

\* Text, created 2024-01-01 by the time of the file.
FileUndated ==
  [stem |-> <<"n">>, extension |-> "txt", readable |-> TRUE,
   metadata |-> GoodTimes, frontmatter |-> NoFrontmatter, body |-> <<>>]

\* Markdown whose frontmatter block is not YAML.
FileMalformed ==
  [stem |-> <<"m">>, extension |-> "md", readable |-> TRUE,
   metadata |-> GoodTimes,
   frontmatter |-> [NoFrontmatter EXCEPT !.kind = "malformed"], body |-> <<>>]

\* Markdown whose frontmatter fields have the wrong types.
FileMismatch ==
  [stem |-> <<"d">>, extension |-> "md", readable |-> TRUE,
   metadata |-> GoodTimes,
   frontmatter |-> [NoFrontmatter EXCEPT !.kind = "mismatch"], body |-> <<>>]

\* Text that cannot be read.
FileUnreadable ==
  [stem |-> <<"u">>, extension |-> "txt", readable |-> FALSE,
   metadata |-> GoodTimes, frontmatter |-> NoFrontmatter, body |-> <<>>]

\* Markdown with an image of a relative source.
FileLocalImage ==
  [stem |-> <<"l">>, extension |-> "md", readable |-> TRUE,
   metadata |-> GoodTimes, frontmatter |-> NoFrontmatter, body |-> BodyLocalImage]

\* An entry that is no content file.
FileImage ==
  [stem |-> <<"i">>, extension |-> "png", readable |-> TRUE,
   metadata |-> GoodTimes, frontmatter |-> NoFrontmatter, body |-> <<>>]

DiscoveredFiles ==
  {FileDated, FileFrontmatter, FileText, FileUndated, FileMalformed,
   FileMismatch, FileUnreadable, FileLocalImage, FileImage}

Init ==
  /\ input = ShareProviders
  /\ output = None
  /\ files \in SeqsUpTo(DiscoveredFiles, MaxFiles)
  /\ cursor = 1
  /\ articles = <<>>
  /\ status = "walking"

\* The entry under the cursor is a .md or .txt file.
AtContentFile ==
  /\ status = "walking"
  /\ cursor <= Len(files)
  /\ files[cursor].extension \in {"md", "txt"}

\* An entry with another extension: nothing is done with it.
SkipEntry ==
  /\ status = "walking"
  /\ cursor <= Len(files)
  /\ files[cursor].extension \notin {"md", "txt"}
  /\ cursor' = cursor + 1
  /\ UNCHANGED <<input, output, files, articles, status>>

\* Ok(article) => articles.push(article)
PushArticle ==
  /\ AtContentFile
  /\ parse_file(files[cursor], input).outcome = "Ok"
  /\ articles' = Append(articles, parse_file(files[cursor], input).article)
  /\ cursor' = cursor + 1
  /\ UNCHANGED <<input, output, files, status>>

\* The Err arm with the error sent on to the caller, as parse_file(..)? does.
ReturnError ==
  /\ AtContentFile
  /\ parse_file(files[cursor], input).outcome = "Err"
  /\ output' = Some([ok |-> FALSE])
  /\ status' = "returned"
  /\ UNCHANGED <<input, files, cursor, articles>>

\* Err(e) => eprintln!("-> Skipping file ..."): the walk goes on.
SkipFile ==
  /\ AtContentFile
  /\ parse_file(files[cursor], input).outcome = "Err"
  /\ cursor' = cursor + 1
  /\ UNCHANGED <<input, output, files, articles, status>>

\* parse_file panics (the unwrap of the frontmatter parse): the run ends.
Panic ==
  /\ AtContentFile
  /\ parse_file(files[cursor], input).outcome = "Panic"
  /\ status' = "panicked"
  /\ UNCHANGED <<input, output, files, cursor, articles>>

\* After the last entry: the sort, and Ok(articles).
SortAndReturn ==
  /\ status = "walking"
  /\ cursor > Len(files)
  /\ articles' = SortByCreated(articles)
  /\ output' = Some([ok |-> TRUE, articles |-> SortByCreated(articles)])
  /\ status' = "returned"
  /\ UNCHANGED <<input, files, cursor>>

Next ==
  \/ SkipEntry
  \/ PushArticle
  \/ SkipFile
  \/ Panic
  \/ SortAndReturn

Spec == Init /\ [][Next]_vars

\* The files that parse, and the files with one of the hard errors.
GoodFiles == {FileDated, FileFrontmatter, FileText, FileUndated}

HardErrorFiles == {FileMismatch, FileUnreadable, FileLocalImage}

IsGoodFile(f) == f \in GoodFiles

\* The article each good file of fs yields when parsed on its own, in the
\* order of fs.
ArticlesOf(fs) ==
  LET good == SelectSeq(fs, IsGoodFile)
  IN  [i \in 1..Len(good) |-> parse_file(good[i], ShareProviders).article]

\* How often x occurs in v.
Occurrences(v, x) == Cardinality({i \in 1..Len(v) : v[i] = x})

IsPermutation(v, w) ==
  /\ Len(v) = Len(w)
  /\ \A i \in 1..Len(v) : Occurrences(v, v[i]) = Occurrences(w, v[i])

\* C1: a Markdown file with a malformed frontmatter block does not abort
\* the run: the call returns Ok with an article for every good file.
C1_MalformedFrontmatterSkipped ==
  /\ status /= "panicked"
  /\ status = "returned" =>
       /\ output.value.ok
       /\ IsPermutation(output.value.articles, ArticlesOf(files))

C3_SortedDescendingStable ==
  status = "returned" =>
    LET out == output.value.articles
        found == ArticlesOf(files)
    IN  /\ IsPermutation(out, found)
        /\ \A i \in 1..(Len(out) - 1) :
             ~DateLess(out[i].created.value, out[i + 1].created.value)
        /\ \A a \in {out[i] : i \in 1..Len(out)} :
             LET SameDay(x) == x.created = a.created
             IN  SelectSeq(out, SameDay) = SelectSeq(found, SameDay)

\* C3, reached: two articles of 2024-10-26 in discovery order, then 2023-01-01.
C3_Witness ==
  /\ status = "returned"
  /\ files = <<FileText, FileFrontmatter, FileDated>>
  /\ output.value.articles[1].slug = StemDatedText
  /\ output.value.articles[2].slug = StemDated
  /\ output.value.articles[3].slug = StemPlain

====
